---- MODULE Spec2Model ----
(***************************************************************************)
(* Model of the two operational scripts of the repository:                 *)
(*   setup_agents.py  LiamSetup: backup_database, restore_database,        *)
(*                    list_backups, _cleanup_old_backups, _upload_to_s3    *)
(*   start.py         LiamStart: check_health, check_metrics,              *)
(*                    wait_for_health, monitor, start_docker,              *)
(*                    start_traditional, start_kubernetes                  *)
(* Time is counted in ticks; MinuteTicks ticks make one minute of the      *)
(* strftime('%Y-%m-%d-%H-%M') stamp and DayTicks ticks make the            *)
(* 24 * 60 * 60 seconds of one retention day.  A behaviour is one command  *)
(* of one script, run as a process of its own at time StartTime on the     *)
(* files it finds.                                                         *)
(***************************************************************************)
EXTENDS Integers, Sequences, FiniteSets, TLC

\* ---------------------------------------------------------------- bounds
StartTime == 3
MinuteTicks == 2
DayTicks == 2
MaxRetention == 1
MaxInitFiles == 2
MaxStageTime == 1
MaxAttempts == 3
\* the minute stamp of the clock reading 0
FirstStamp == 9
\* rounds of the monitor loop that are followed, longest --interval
MaxRounds == 3
MaxInterval == 2
\* max_attempts of the wait_for_health() calls made by start (30 at line 279)
DefaultAttempts == 2

\* ------------------------------------------------------------- filesystem
\* A file name of the backup directory: the minute stamp and what follows it.
\*   ".sql"     backup-<ts>.sql
\*   ".sql.gz"  backup-<ts>.sql.gz
\*   ".txt"     a file of the directory that the glob does not match
\* strftime writes its fields as decimal numbers
Decimal == 10

Stamps == FirstStamp..(FirstStamp + StartTime \div MinuteTicks)
Exts == {".sql", ".sql.gz"}
Names == [ts : Stamps, ext : Exts] \cup {[ts |-> FirstStamp, ext |-> ".txt"]}
NoPath == [ts |-> -1, ext |-> ""]

\* backup-*.sql*
Glob(name) == name.ext \in {".sql", ".sql.gz"}

\* datetime.now().strftime('%Y-%m-%d-%H-%M')
Timestamp(t) == FirstStamp + t \div MinuteTicks

SqlFile(t) == [ts |-> Timestamp(t), ext |-> ".sql"]

\* the path left as it was after gzip
WithGzSameName(name) == name

\* Path(str(backup_file) + '.gz')
WithGz(name) == [ts |-> name.ts, ext |-> name.ext \o ".gz"]

\* Path.suffix == '.gz'
HasGzSuffix(name) == name.ext = ".sql.gz"

\* Path.with_suffix('')
WithoutSuffix(name) == [ts |-> name.ts, ext |-> ".sql"]

\* a directory maps the names it holds to [mtime, valid, locked]; valid is
\* FALSE for a dump that pg_dump did not complete, locked is TRUE for a file
\* whose unlink() raises PermissionError
Put(d, name, attr) == [n \in (DOMAIN d) \cup {name} |-> IF n = name THEN attr ELSE d[n]]
Remove(d, names) == [n \in (DOMAIN d) \ names |-> d[n]]
EmptyDir == [n \in {} |-> [mtime |-> 0, valid |-> TRUE, locked |-> FALSE]]

\* --------------------------------------------------------------- the state
VARIABLES
  now,          \* time.time(), in ticks
  dirExists,    \* self.backup_dir.exists()
  dir,          \* the files of self.backup_dir
  env,          \* what .env.local holds for POSTGRES_URL: "none", "" or a URL
  db,           \* number of times psql has streamed a file into the database
  cmd,          \* the running command: "none", "backup", "cleanup", "restore", "list"
  pc,           \* position of the running command
  bk,           \* locals of backup_database
  rs,           \* locals of restore_database
  result,       \* return value of the command: "none", "true", "false"
  calls,        \* external tools run and lines reported by the running command
  pre           \* directory and database when the running command started

setupVars == <<now, dirExists, dir, env, db, cmd, pc, bk, rs, result, calls, pre>>

VARIABLES
  hpc,          \* position of wait_for_health
  max_attempts, \* its argument
  i,            \* its loop variable
  health,       \* the value check_health returned last
  log,          \* what the endpoint did on each probe of this call
  hresult,      \* return value of wait_for_health
  sleeps,       \* time.sleep(2) calls made by this call
  elapsed       \* seconds since the call

startVars == <<hpc, max_attempts, i, health, log, hresult, sleeps, elapsed>>

\* start.py, monitor
VARIABLES
  mpc,          \* position of monitor: "idle", "poll", "sleep", "stopped"
  interval,     \* its argument, --interval
  lines,        \* the summary lines printed, "OK" or "FAIL"
  naps,         \* time.sleep(interval) calls that returned
  why,          \* how monitor ended: "none", "interrupt", "error"
  mhealth,      \* what check_health returned in the last round
  mmetrics      \* what check_metrics returned in the last round

monVars == <<mpc, interval, lines, naps, why, mhealth, mmetrics>>

\* start.py, start
VARIABLES
  site,         \* docker-compose.yml exists, .next exists, which pm2 exits 0
  spc,          \* position of start: "idle", "wait", "done"
  method,       \* "none", "docker", "traditional", "kubernetes"
  launched,     \* the launch commands run, with their exit status
  sresult       \* return value of start_*: "none", "true", "false"

launchVars == <<site, spc, method, launched, sresult>>

vars == <<setupVars, startVars, monVars, launchVars>>

\* ---------------------------------------------------- _cleanup_old_backups
\* time.time() - (retention_days * 24 * 60 * 60)
Cutoff(t, r) == t - (r * DayTicks)

\* the comparison with <= in place of <
IsStaleOrEqual(mtime, cutoff) == mtime <= cutoff

\* backup.stat().st_mtime < cutoff
IsStale(mtime, cutoff) == mtime < cutoff

\* the orders in which glob() can yield the files of S
Orders(S) ==
  {o \in [1..Cardinality(S) -> S] : \A j, k \in 1..Cardinality(S) : j # k => o[j] # o[k]}

\* the loop left at its first deletion
RECURSIVE SweepLoopBreaks(_, _, _)
SweepLoopBreaks(d, order, cutoff) ==
  IF order = << >> THEN [dir |-> d, raised |-> FALSE]
  ELSE LET backup == Head(order)
       IN  IF IsStale(d[backup].mtime, cutoff)
             THEN IF d[backup].locked
                    THEN [dir |-> d, raised |-> TRUE]
                    ELSE [dir |-> Remove(d, {backup}), raised |-> FALSE]
             ELSE SweepLoopBreaks(d, Tail(order), cutoff)

\* for backup in self.backup_dir.glob("backup-*.sql*"): ... backup.unlink()
\* the files are met in the given order; unlink() of a locked file raises and
\* nothing catches it, which ends the loop
RECURSIVE SweepLoop(_, _, _)
SweepLoop(d, order, cutoff) ==
  IF order = << >> THEN [dir |-> d, raised |-> FALSE]
  ELSE LET backup == Head(order)
       IN  IF IsStale(d[backup].mtime, cutoff)
             THEN IF d[backup].locked
                    THEN [dir |-> d, raised |-> TRUE]
                    ELSE SweepLoop(Remove(d, {backup}), Tail(order), cutoff)
             ELSE SweepLoop(d, Tail(order), cutoff)

\* the glob matches of a directory
Matches(exists, d) == IF exists THEN {n \in DOMAIN d : Glob(n)} ELSE {}

\* lines 579-590: the directory the sweep leaves and whether it raised
CleanupOldBackups(exists, d, order, t, r) ==
  IF ~exists THEN [dir |-> d, raised |-> FALSE]
  ELSE SweepLoop(d, order, Cutoff(t, r))

\* what one sweep leaves in the log of the command
CleanupEvent(exists, d, order, t, r) ==
  [op |-> "cleanup", exists |-> exists, before |-> d, at |-> t, r |-> r,
   ok |-> ~CleanupOldBackups(exists, d, order, t, r).raised,
   removed |-> (DOMAIN d) \ DOMAIN CleanupOldBackups(exists, d, order, t, r).dir]

\* ------------------------------------------------------------ environment
EnvValues == {"none", "", "postgres://db"}
Buckets == {"none", "", "bucket"}

\* env_vars.get('POSTGRES_URL'), and Python's truth value of a str or None
LoadEnv(e) == e

\* the test "is not None" in place of the truth value
StrTruthyNotNone(s) == s # "none"

StrTruthy(s) == s \notin {"none", ""}

Event(op, ok, file) == [op |-> op, ok |-> ok, file |-> file]

NoBackup == [compress |-> FALSE, s3_bucket |-> "none", retention_days |-> 0, backup_file |-> NoPath]
NoRestore == [backup_path |-> NoPath, dry_run |-> FALSE, response |-> ""]
Snapshot == [dir |-> dir, dirExists |-> dirExists, db |-> db]

CanStart == pc = "idle"

\* the clock after a stage that takes d ticks
Later(d) == now' = now + d

\* --------------------------------------------------------- backup_database
\* lines 392-408: mkdir, POSTGRES_URL, the file name
BackupStart ==
  \E c \in BOOLEAN, s3 \in Buckets, r \in 0..MaxRetention :
    /\ CanStart
    /\ pre' = Snapshot
    /\ cmd' = "backup"
    /\ dirExists' = TRUE
    /\ rs' = NoRestore
    /\ calls' = << >>
    /\ IF ~StrTruthy(LoadEnv(env))
         THEN /\ pc' = "done"
              /\ result' = "false"
              /\ bk' = [compress |-> c, s3_bucket |-> s3, retention_days |-> r,
                        backup_file |-> NoPath]
         ELSE /\ pc' = "pg_dump"
              /\ result' = "none"
              /\ bk' = [compress |-> c, s3_bucket |-> s3, retention_days |-> r,
                        backup_file |-> SqlFile(now)]
    /\ UNCHANGED <<now, dir, env, db>>

AfterDump == IF bk.compress THEN "gzip" ELSE IF StrTruthy(bk.s3_bucket) THEN "upload" ELSE "cleanup"

\* a dump that leaves an existing file of the same name as it is
BackupDumpKeepsExisting ==
  \E ok \in BOOLEAN, d \in 0..MaxStageTime :
    /\ pc = "pg_dump"
    /\ Later(d)
    /\ dir' = IF bk.backup_file \in DOMAIN dir THEN dir
              ELSE Put(dir, bk.backup_file, [mtime |-> now', valid |-> ok, locked |-> FALSE])
    /\ calls' = Append(calls, Event("pg_dump", ok, bk.backup_file))
    /\ IF ok THEN pc' = AfterDump /\ result' = result
             ELSE pc' = "done" /\ result' = "false"
    /\ UNCHANGED <<dirExists, env, db, bk, rs, pre, cmd>>

\* lines 412-419 and 437-439: open(backup_file, 'w') creates or truncates the
\* file, pg_dump writes into it; a non-zero exit is CalledProcessError
BackupDump ==
  \E ok \in BOOLEAN, d \in 0..MaxStageTime :
    /\ pc = "pg_dump"
    /\ Later(d)
    /\ dir' = Put(dir, bk.backup_file, [mtime |-> now', valid |-> ok, locked |-> FALSE])
    /\ calls' = Append(calls, Event("pg_dump", ok, bk.backup_file))
    /\ IF ok THEN pc' = AfterDump /\ result' = result
             ELSE pc' = "done" /\ result' = "false"
    /\ UNCHANGED <<dirExists, env, db, bk, rs, pre, cmd>>

\* gzip run without check=True: its failure goes unnoticed
BackupCompressUnchecked ==
  \E ok \in BOOLEAN :
    /\ pc = "gzip"
    /\ calls' = Append(calls, Event("gzip", ok, bk.backup_file))
    /\ IF ok
         THEN /\ dir' = Put(Remove(dir, {bk.backup_file}), WithGz(bk.backup_file),
                            dir[bk.backup_file])
         ELSE /\ dir' = dir
    /\ bk' = [bk EXCEPT !.backup_file = WithGz(bk.backup_file)]
    /\ pc' = IF StrTruthy(bk.s3_bucket) THEN "upload" ELSE "cleanup"
    /\ result' = result
    /\ UNCHANGED <<now, dirExists, env, db, rs, pre, cmd>>

\* lines 422-426 and 437-439: gzip replaces the file by file.gz and keeps its
\* modification time; a non-zero exit is CalledProcessError
BackupCompress ==
  \E ok \in BOOLEAN :
    /\ pc = "gzip"
    /\ calls' = Append(calls, Event("gzip", ok, bk.backup_file))
    /\ IF ok
         THEN /\ dir' = Put(Remove(dir, {bk.backup_file}), WithGz(bk.backup_file),
                            dir[bk.backup_file])
              /\ bk' = [bk EXCEPT !.backup_file = WithGz(bk.backup_file)]
              /\ pc' = IF StrTruthy(bk.s3_bucket) THEN "upload" ELSE "cleanup"
              /\ result' = result
         ELSE /\ pc' = "done"
              /\ result' = "false"
              /\ UNCHANGED <<dir, bk>>
    /\ UNCHANGED <<now, dirExists, env, db, rs, pre, cmd>>

\* the upload without its own try/except: CalledProcessError reaches the
\* handler of backup_database
UploadToS3Uncaught ==
  \E ok \in BOOLEAN :
    /\ pc = "upload"
    /\ calls' = Append(calls, Event("upload", ok, bk.backup_file))
    /\ IF ok THEN pc' = "cleanup" /\ result' = result
             ELSE pc' = "done" /\ result' = "false"
    /\ UNCHANGED <<now, dirExists, dir, env, db, bk, rs, pre, cmd>>

\* lines 429-430 and 592-603: aws s3 cp; CalledProcessError is caught here
UploadToS3 ==
  \E ok \in BOOLEAN :
    /\ pc = "upload"
    /\ calls' = Append(calls, Event("upload", ok, bk.backup_file))
    /\ pc' = "cleanup"
    /\ result' = result
    /\ UNCHANGED <<now, dirExists, dir, env, db, bk, rs, pre, cmd>>

\* a run that returns True without sweeping once the upload has failed
BackupCleanupSkipsAfterFailedUpload ==
  \E d \in 0..MaxStageTime, order \in Orders(Matches(dirExists, dir)) :
    /\ pc = "cleanup"
    /\ Later(d)
    /\ IF Len(calls) > 0 /\ calls[Len(calls)].op = "upload" /\ ~calls[Len(calls)].ok
         THEN dir' = dir /\ calls' = calls /\ result' = "true"
         ELSE /\ dir' = CleanupOldBackups(dirExists, dir, order, now', bk.retention_days).dir
              /\ calls' = Append(calls, CleanupEvent(dirExists, dir, order, now', bk.retention_days))
              /\ result' = IF CleanupOldBackups(dirExists, dir, order, now', bk.retention_days).raised
                             THEN "raised" ELSE "true"
    /\ pc' = "done"
    /\ UNCHANGED <<dirExists, env, db, bk, rs, pre, cmd>>

\* lines 433-435: the retention sweep, then return True; the sweep reads the
\* clock d ticks after pg_dump last wrote the dump; PermissionError is not
\* CalledProcessError, so it leaves backup_database as an exception
BackupCleanup ==
  \E d \in 0..MaxStageTime, order \in Orders(Matches(dirExists, dir)) :
    /\ pc = "cleanup"
    /\ Later(d)
    /\ dir' = CleanupOldBackups(dirExists, dir, order, now', bk.retention_days).dir
    /\ calls' = Append(calls, CleanupEvent(dirExists, dir, order, now', bk.retention_days))
    /\ pc' = "done"
    /\ result' = IF CleanupOldBackups(dirExists, dir, order, now', bk.retention_days).raised
                   THEN "raised" ELSE "true"
    /\ UNCHANGED <<dirExists, env, db, bk, rs, pre, cmd>>

\* lines 579-590 called on their own
Cleanup ==
  \E r \in 0..MaxRetention, order \in Orders(Matches(dirExists, dir)) :
    /\ CanStart
    /\ pre' = Snapshot
    /\ cmd' = "cleanup"
    /\ bk' = [NoBackup EXCEPT !.retention_days = r]
    /\ rs' = NoRestore
    /\ dir' = CleanupOldBackups(dirExists, dir, order, now, r).dir
    /\ calls' = << CleanupEvent(dirExists, dir, order, now, r) >>
    /\ pc' = "done"
    /\ result' = IF CleanupOldBackups(dirExists, dir, order, now, r).raised
                   THEN "raised" ELSE "none"
    /\ UNCHANGED <<now, dirExists, env, db>>

\* lines 579-590 called a second time with the same retention_days, d ticks
\* after the first call
CleanupAgain ==
  \E d \in 0..MaxStageTime, order \in Orders(Matches(dirExists, dir)) :
    /\ cmd = "cleanup"
    /\ pc = "done"
    /\ Len(calls) = 1
    /\ result = "none"
    /\ Later(d)
    /\ dir' = CleanupOldBackups(dirExists, dir, order, now', bk.retention_days).dir
    /\ calls' = Append(calls, CleanupEvent(dirExists, dir, order, now', bk.retention_days))
    /\ result' = IF CleanupOldBackups(dirExists, dir, order, now', bk.retention_days).raised
                   THEN "raised" ELSE "none"
    /\ UNCHANGED <<dirExists, env, db, cmd, pc, bk, rs, pre>>

\* -------------------------------------------------------- restore_database
Answers == {"yes", "YES", "Yes", "y", "no", ""}

\* str.lower()
Lower(s) == IF s \in {"YES", "Yes"} THEN "yes" ELSE s

\* only an explicit 'no' stops the restore
DeclinedOnlyNo(response) == Lower(response) = "no"

\* response.lower() != 'yes'
Declined(response) == Lower(response) # "yes"

\* backup_path.exists()
Exists(name) == dirExists /\ name \in DOMAIN dir

\* the prompt placed before the dry-run test
RestoreStartPromptsFirst ==
  \E file \in Names, dry \in BOOLEAN :
    /\ CanStart
    /\ pre' = Snapshot
    /\ cmd' = "restore"
    /\ bk' = NoBackup
    /\ rs' = [backup_path |-> file, dry_run |-> dry, response |-> ""]
    /\ IF ~Exists(file)
         THEN pc' = "done" /\ result' = "false" /\ calls' = << >>
         ELSE pc' = "confirm" /\ result' = "none"
              /\ calls' = << Event("prompt", TRUE, file) >>
    /\ UNCHANGED <<now, dirExists, dir, env, db>>

\* lines 441-454: existence, the dry-run short-circuit, the prompt
RestoreStart ==
  \E file \in Names, dry \in BOOLEAN :
    /\ CanStart
    /\ pre' = Snapshot
    /\ cmd' = "restore"
    /\ bk' = NoBackup
    /\ rs' = [backup_path |-> file, dry_run |-> dry, response |-> ""]
    /\ IF ~Exists(file)
         THEN pc' = "done" /\ result' = "false" /\ calls' = << >>
         ELSE IF dry
                THEN pc' = "done" /\ result' = "true"
                     /\ calls' = << Event("would_restore", TRUE, file) >>
                ELSE pc' = "confirm" /\ result' = "none"
                     /\ calls' = << Event("prompt", TRUE, file) >>
    /\ UNCHANGED <<now, dirExists, dir, env, db>>

\* gunzip -k run before the answer and POSTGRES_URL are tested
RestoreConfirmDecompressesFirst ==
  \E answer \in Answers :
    /\ pc = "confirm"
    /\ rs' = [rs EXCEPT !.response = answer]
    /\ dir' = IF HasGzSuffix(rs.backup_path)
                THEN Put(dir, WithoutSuffix(rs.backup_path), dir[rs.backup_path])
                ELSE dir
    /\ calls' = IF HasGzSuffix(rs.backup_path)
                  THEN Append(calls, Event("gunzip", TRUE, rs.backup_path))
                  ELSE calls
    /\ IF Declined(answer) \/ ~StrTruthy(LoadEnv(env))
         THEN pc' = "done" /\ result' = "false"
         ELSE pc' = "psql" /\ result' = result
    /\ UNCHANGED <<now, dirExists, env, db, bk, pre, cmd>>

\* lines 454-464: the answer to input("Continue? (yes/NO): "), POSTGRES_URL
RestoreConfirm ==
  \E answer \in Answers :
    /\ pc = "confirm"
    /\ rs' = [rs EXCEPT !.response = answer]
    /\ IF Declined(answer) \/ ~StrTruthy(LoadEnv(env))
         THEN pc' = "done" /\ result' = "false"
         ELSE pc' = (IF HasGzSuffix(rs.backup_path) THEN "gunzip" ELSE "psql")
              /\ result' = result
    /\ UNCHANGED <<now, dirExists, dir, env, db, bk, calls, pre, cmd>>

\* gunzip without -k, which replaces the archive by the decompressed file
RestoreDecompressNoKeep ==
  \E ok \in BOOLEAN :
    /\ pc = "gunzip"
    /\ calls' = Append(calls, Event("gunzip", ok, rs.backup_path))
    /\ IF ok
         THEN /\ dir' = Remove(Put(dir, WithoutSuffix(rs.backup_path), dir[rs.backup_path]),
                               {rs.backup_path})
              /\ rs' = [rs EXCEPT !.backup_path = WithoutSuffix(rs.backup_path)]
              /\ pc' = "psql"
              /\ result' = result
         ELSE /\ pc' = "done"
              /\ result' = "false"
              /\ UNCHANGED <<dir, rs>>
    /\ UNCHANGED <<now, dirExists, env, db, bk, pre, cmd>>

\* lines 468-471 and 485-487: gunzip -k keeps the archive and writes the
\* sibling without the suffix; a non-zero exit is CalledProcessError
RestoreDecompress ==
  \E ok \in BOOLEAN :
    /\ pc = "gunzip"
    /\ calls' = Append(calls, Event("gunzip", ok, rs.backup_path))
    /\ IF ok
         THEN /\ dir' = Put(dir, WithoutSuffix(rs.backup_path), dir[rs.backup_path])
              /\ rs' = [rs EXCEPT !.backup_path = WithoutSuffix(rs.backup_path)]
              /\ pc' = "psql"
              /\ result' = result
         ELSE /\ pc' = "done"
              /\ result' = "false"
              /\ UNCHANGED <<dir, rs>>
    /\ UNCHANGED <<now, dirExists, env, db, bk, pre, cmd>>

\* lines 474-487: psql reads the file from stdin; a non-zero exit is
\* CalledProcessError, after psql may or may not have changed the database
RestorePsql ==
  \E ok \in BOOLEAN, wrote \in BOOLEAN :
    /\ pc = "psql"
    /\ ok => wrote
    /\ calls' = Append(calls, Event("psql", ok, rs.backup_path))
    /\ db' = IF wrote THEN db + 1 ELSE db
    /\ pc' = "done"
    /\ result' = IF ok THEN "true" ELSE "false"
    /\ UNCHANGED <<now, dirExists, dir, env, bk, rs, pre, cmd>>

\* ------------------------------------------------------------ list_backups
\* the minute field without the zero padding of strftime
StampTextUnpadded(ts) == IF ts < Decimal THEN << ts >> ELSE << ts \div Decimal, ts % Decimal >>

\* strftime('%M'): the digits of the minute field, two of them, zero padded
StampText(ts) == << ts \div Decimal, ts % Decimal >>

\* s < t for two strings of digits that are followed by "."; "." sorts before
\* every digit, so a proper prefix is the smaller one
DigitsLess(s, t) ==
  \E k \in 1..Len(t) :
    /\ \A j \in 1..(k - 1) : j <= Len(s) /\ s[j] = t[j]
    /\ k > Len(s) \/ s[k] < t[k]

\* order of the file names as strings (Path.__lt__): the stamp text, then
\* ".sql" before ".sql.gz"
NameLess(a, b) ==
  \/ DigitsLess(StampText(a.ts), StampText(b.ts))
  \/ StampText(a.ts) = StampText(b.ts) /\ a.ext = ".sql" /\ b.ext = ".sql.gz"

\* sorted(..., reverse=True)
RECURSIVE SortedDesc(_)
SortedDesc(S) ==
  IF S = {} THEN << >>
  ELSE LET top == CHOOSE a \in S : \A b \in S \ {a} : NameLess(b, a)
       IN  << top >> \o SortedDesc(S \ {top})

\* lines 489-503: the names printed, in the order printed
ListBackups(exists, d) ==
  IF ~exists THEN << >> ELSE SortedDesc({n \in DOMAIN d : Glob(n)})

ListBackupsOp ==
    /\ CanStart
    /\ pre' = Snapshot
    /\ cmd' = "list"
    /\ bk' = NoBackup
    /\ rs' = NoRestore
    /\ calls' = << [op |-> "list", names |-> ListBackups(dirExists, dir)] >>
    /\ pc' = "done"
    /\ result' = "none"
    /\ UNCHANGED <<now, dirExists, dir, env, db>>

\* ------------------------------------------------------------ check_health
\* seconds: HTTPConnection(..., timeout=5) and time.sleep(2)
ProbeTimeout == 5
SleepInterval == 2

\* Python values json.loads can return, and None
None == [t |-> "None", v |-> 0]
Healthy == [t |-> "dict", v |-> [status |-> "ok", uptime |-> 3700]]
EmptyDict == [t |-> "dict", v |-> << >>]
MemoryUsed == [t |-> "dict", v |-> [memory |-> [t |-> "dict", v |-> [used |-> 5]]]]

\* bodies the endpoint may send; the first two are not JSON
Bodies == {"", "<html>", "null", "false", "0", "[]", "[1]", "{}",
           "{\"status\":\"ok\",\"uptime\":3700}"}

Parseable(body) == body \notin {"", "<html>"}

\* json.loads(response.read().decode())
Loads(body) ==
  CASE body = "null"  -> None
    [] body = "false" -> [t |-> "bool", v |-> FALSE]
    [] body = "0"     -> [t |-> "int", v |-> 0]
    [] body = "[]"    -> [t |-> "list", v |-> << >>]
    [] body = "[1]"   -> [t |-> "list", v |-> << 1 >>]
    [] body = "{}"    -> EmptyDict
    [] body = "{\"memory\":5}" -> [t |-> "dict", v |-> [memory |-> [t |-> "int", v |-> 5]]]
    [] body = "{\"memory\":{\"used\":5}}" -> MemoryUsed
    [] OTHER          -> Healthy

\* what one GET /api/health can meet
ProbeOutcomes ==
  {[kind |-> "refused", status |-> 0, body |-> ""],
   [kind |-> "timeout", status |-> 0, body |-> ""]}
  \cup [kind : {"response"}, status : {200, 503}, body : Bodies]

\* lines 240-251: the body of a 200 answer, parsed; None for everything else,
\* every exception being swallowed
CheckHealth(o) ==
  IF o.kind = "response" /\ o.status = 200 /\ Parseable(o.body)
    THEN Loads(o.body)
    ELSE None

\* Python's truth value, as in "if health:"
Truthy(x) ==
  CASE x.t = "None" -> FALSE
    [] x.t = "bool" -> x.v
    [] x.t = "int"  -> x.v # 0
    [] x.t = "list" -> Len(x.v) > 0
    [] x.t = "dict" -> DOMAIN x.v # {}
    [] OTHER        -> TRUE

\* seconds one probe takes: the timeout when nothing answers
ProbeTime(o) == IF o.kind = "timeout" THEN ProbeTimeout ELSE 0

\* --------------------------------------------------------- wait_for_health
\* lines 279-283: the call; range(max_attempts) is empty for 0
WaitCall(m) ==
  /\ max_attempts' = m
  /\ i' = 0
  /\ health' = None
  /\ log' = << >>
  /\ sleeps' = 0
  /\ elapsed' = 0
  /\ IF m = 0 THEN hpc' = "done" /\ hresult' = "false"
              ELSE hpc' = "probe" /\ hresult' = "none"

WaitStart ==
  \E m \in 0..MaxAttempts :
    /\ hpc \in {"idle", "done"}
    /\ WaitCall(m)

\* time.sleep(2) placed before the test of the answer
WaitProbeSleepsFirst ==
  \E o \in ProbeOutcomes :
    /\ hpc = "probe"
    /\ log' = Append(log, o)
    /\ health' = CheckHealth(o)
    /\ elapsed' = elapsed + ProbeTime(o) + (IF Truthy(health') THEN SleepInterval ELSE 0)
    /\ sleeps' = IF Truthy(health') THEN sleeps + 1 ELSE sleeps
    /\ IF Truthy(health')
         THEN hpc' = "done" /\ hresult' = "true"
         ELSE hpc' = "sleep" /\ hresult' = hresult
    /\ UNCHANGED <<max_attempts, i>>

\* lines 284-287: one probe; a truthy answer returns True
WaitProbe ==
  \E o \in ProbeOutcomes :
    /\ hpc = "probe"
    /\ log' = Append(log, o)
    /\ health' = CheckHealth(o)
    /\ elapsed' = elapsed + ProbeTime(o)
    /\ IF Truthy(health')
         THEN hpc' = "done" /\ hresult' = "true"
         ELSE hpc' = "sleep" /\ hresult' = hresult
    /\ UNCHANGED <<max_attempts, i, sleeps>>

\* the loop running one round too many
WaitSleepOneMore ==
  /\ hpc = "sleep"
  /\ sleeps' = sleeps + 1
  /\ elapsed' = elapsed + SleepInterval
  /\ i' = i + 1
  /\ IF i + 1 <= max_attempts
       THEN hpc' = "probe" /\ hresult' = hresult
       ELSE hpc' = "done" /\ hresult' = "false"
  /\ UNCHANGED <<max_attempts, health, log>>

\* lines 288-292: the sleep after a probe that was not healthy, the next
\* round of the loop or return False
WaitSleep ==
  /\ hpc = "sleep"
  /\ sleeps' = sleeps + 1
  /\ elapsed' = elapsed + SleepInterval
  /\ i' = i + 1
  /\ IF i + 1 < max_attempts
       THEN hpc' = "probe" /\ hresult' = hresult
       ELSE hpc' = "done" /\ hresult' = "false"
  /\ UNCHANGED <<max_attempts, health, log>>

\* ------------------------------------------------------------------ monitor
\* bodies /api/metrics may send, and what one GET /api/metrics can meet
MetricsBodies == {"<html>", "{}", "[1]", "{\"memory\":5}", "{\"memory\":{\"used\":5}}"}

MetricsOutcomes ==
  {[kind |-> "refused", status |-> 0, body |-> ""],
   [kind |-> "response", status |-> 503, body |-> "{}"]}
  \cup [kind : {"response"}, status : {200}, body : MetricsBodies]

\* lines 266-277: the same code as check_health, on /api/metrics
CheckMetrics(o) ==
  IF o.kind = "response" /\ o.status = 200 /\ Parseable(o.body)
    THEN Loads(o.body)
    ELSE None

\* line 224: metrics.get('memory', {}).get('used', 'N/A') if metrics else
\* 'N/A' raises AttributeError when metrics, or its memory entry, has no get()
MemoryRaises(m) ==
  /\ Truthy(m)
  /\ \/ m.t # "dict"
     \/ "memory" \in DOMAIN m.v /\ m.v.memory.t # "dict"

\* line 225: health.get('uptime', 0) raises AttributeError when health is
\* not a dict
UptimeRaises(h) == h.t # "dict"

\* line 210 and main: --interval is any int
MonitorStart ==
  \E iv \in (-1)..MaxInterval :
    /\ mpc = "idle"
    /\ mpc' = "poll"
    /\ interval' = iv
    /\ UNCHANGED <<lines, naps, why, mhealth, mmetrics>>

\* lines 216-234: one round of the loop up to its print; an exception other
\* than KeyboardInterrupt leaves monitor
MonitorPoll ==
  \E oh \in ProbeOutcomes, om \in MetricsOutcomes :
    /\ mpc = "poll"
    /\ mhealth' = CheckHealth(oh)
    /\ mmetrics' = CheckMetrics(om)
    /\ IF Truthy(mhealth')
         THEN IF MemoryRaises(mmetrics') \/ UptimeRaises(mhealth')
                THEN mpc' = "stopped" /\ why' = "error" /\ lines' = lines
                ELSE mpc' = "sleep" /\ why' = why /\ lines' = Append(lines, "OK")
         ELSE mpc' = "sleep" /\ why' = why /\ lines' = Append(lines, "FAIL")
    /\ UNCHANGED <<interval, naps>>

\* line 236: time.sleep(interval), which raises ValueError for a negative
\* interval; then the next round (rounds beyond MaxRounds are not followed)
MonitorSleep ==
  /\ mpc = "sleep"
  /\ Len(lines) < MaxRounds
  /\ IF interval < 0
       THEN mpc' = "stopped" /\ why' = "error" /\ naps' = naps
       ELSE mpc' = "poll" /\ why' = why /\ naps' = naps + 1
  /\ UNCHANGED <<interval, lines, mhealth, mmetrics>>

\* lines 237-238: Ctrl+C at any point of the loop
MonitorInterrupt ==
  /\ mpc \in {"poll", "sleep"}
  /\ mpc' = "stopped"
  /\ why' = "interrupt"
  /\ UNCHANGED <<interval, lines, naps, mhealth, mmetrics>>

\* -------------------------------------------------------------------- start
\* subprocess.run(..., check=True) of the commands cmds in turn, the first n
\* of them exiting 0: the commands run, with their exit status
RunChecked(cmds, n) ==
  [k \in 1..(IF n < Len(cmds) THEN n + 1 ELSE n) |-> [cmd |-> cmds[k], ok |-> k <= n, checked |-> TRUE]]

\* CalledProcessError was raised
Raised(cmds, n) == n < Len(cmds)

\* the return value of wait_for_health taken as the result of the start
StartReturnWaitResult ==
  /\ spc = "wait"
  /\ hpc = "done"
  /\ spc' = "done"
  /\ sresult' = hresult
  /\ UNCHANGED <<site, method, launched>>
  /\ UNCHANGED startVars

\* lines 52-53 and 82-83: wait_for_health() has returned, its value is
\* dropped, return True
StartReturn ==
  /\ spc = "wait"
  /\ hpc = "done"
  /\ spc' = "done"
  /\ sresult' = "true"
  /\ UNCHANGED <<site, method, launched>>
  /\ UNCHANGED startVars

\* lines 39-56: docker-compose.yml, docker-compose up -d, wait_for_health()
StartDocker ==
  \E n \in 0..1 :
    /\ spc = "idle"
    /\ method' = "docker"
    /\ site' = site
    /\ IF ~site.compose
         THEN /\ launched' = << >>
              /\ spc' = "done"
              /\ sresult' = "false"
              /\ UNCHANGED startVars
         ELSE /\ launched' = RunChecked(<< "docker-compose up" >>, n)
              /\ IF Raised(<< "docker-compose up" >>, n)
                   THEN spc' = "done" /\ sresult' = "false" /\ UNCHANGED startVars
                   ELSE spc' = "wait" /\ sresult' = "none" /\ WaitCall(DefaultAttempts)

\* the checked commands of start_traditional on a site
TraditionalCmds(s) ==
  (IF s.built THEN << >> ELSE << "pnpm build" >>)
    \o (IF s.pm2 THEN << "pm2 start", "pm2 save" >> ELSE << >>)

\* lines 58-86: pnpm build when .next is missing, pm2 start and pm2 save when
\* pm2 is there, else Popen of pnpm start, whose exit status nobody reads;
\* then wait_for_health()
StartTraditional ==
  \E n \in 0..3, exit \in BOOLEAN :
    /\ spc = "idle"
    /\ n <= Len(TraditionalCmds(site))
    /\ site.pm2 => exit
    /\ method' = "traditional"
    /\ site' = site
    /\ IF Raised(TraditionalCmds(site), n)
         THEN /\ launched' = RunChecked(TraditionalCmds(site), n)
              /\ spc' = "done"
              /\ sresult' = "false"
              /\ UNCHANGED startVars
         ELSE /\ launched' = RunChecked(TraditionalCmds(site), n)
                   \o (IF site.pm2 THEN << >>
                       ELSE << [cmd |-> "pnpm start", ok |-> exit, checked |-> FALSE] >>)
              /\ spc' = "wait"
              /\ sresult' = "none"
              /\ WaitCall(DefaultAttempts)

\* lines 88-110: kubectl apply, kubectl wait; no wait_for_health()
StartKubernetes ==
  \E n \in 0..2 :
    /\ spc = "idle"
    /\ method' = "kubernetes"
    /\ site' = site
    /\ launched' = RunChecked(<< "kubectl apply", "kubectl wait" >>, n)
    /\ spc' = "done"
    /\ sresult' = IF Raised(<< "kubectl apply", "kubectl wait" >>, n) THEN "false" ELSE "true"
    /\ UNCHANGED startVars

\* ------------------------------------------------------------ specification
\* the directories the program can find at time t: at most MaxInitFiles files,
\* a backup being named for a minute that had begun when it was last written
Files(t, L) ==
  {f \in UNION {[S -> [mtime : 0..t, valid : {TRUE}, locked : L]] :
                  S \in {T \in SUBSET Names : Cardinality(T) <= MaxInitFiles}} :
     \A n \in DOMAIN f : Glob(n) => (n.ts - FirstStamp) * MinuteTicks <= f[n].mtime}

InitStart ==
  /\ hpc = "idle"
  /\ max_attempts = 0
  /\ i = 0
  /\ health = None
  /\ log = << >>
  /\ hresult = "none"
  /\ sleeps = 0
  /\ elapsed = 0

\* monitor has not been called
InitMonitor ==
  /\ mpc = "idle"
  /\ interval = 0
  /\ lines = << >>
  /\ naps = 0
  /\ why = "none"
  /\ mhealth = None
  /\ mmetrics = None

\* what start looks for: docker-compose.yml, frontend/apps/app/.next, and
\* whether "which pm2" exits 0
Sites == [compose : BOOLEAN, built : BOOLEAN, pm2 : BOOLEAN]

\* start has not been called (the site matters to start only)
InitLaunch ==
  /\ site = [compose |-> FALSE, built |-> FALSE, pm2 |-> FALSE]
  /\ spc = "idle"
  /\ method = "none"
  /\ launched = << >>
  /\ sresult = "none"

\* the state a command finds; L says whether files may be locked
InitFiles(L) ==
  /\ now = StartTime
  /\ dirExists \in BOOLEAN
  /\ dir \in (IF dirExists THEN Files(now, L) ELSE {EmptyDir})
  /\ env \in EnvValues
  /\ db = 0
  /\ cmd = "none"
  /\ pc = "idle"
  /\ bk = NoBackup
  /\ rs = NoRestore
  /\ result = "none"
  /\ calls = << >>
  /\ pre = Snapshot

\* every file of the backup directory can be deleted
InitSetup == InitFiles({FALSE})

Init == InitSetup /\ InitStart /\ InitMonitor /\ InitLaunch

Next ==
  \/ (BackupStart /\ UNCHANGED <<startVars, monVars, launchVars>>)
  \/ (BackupDump /\ UNCHANGED <<startVars, monVars, launchVars>>)
  \/ (BackupCompress /\ UNCHANGED <<startVars, monVars, launchVars>>)
  \/ (UploadToS3 /\ UNCHANGED <<startVars, monVars, launchVars>>)
  \/ (BackupCleanup /\ UNCHANGED <<startVars, monVars, launchVars>>)
  \/ (Cleanup /\ UNCHANGED <<startVars, monVars, launchVars>>)
  \/ (CleanupAgain /\ UNCHANGED <<startVars, monVars, launchVars>>)
  \/ (RestoreStart /\ UNCHANGED <<startVars, monVars, launchVars>>)
  \/ (RestoreConfirm /\ UNCHANGED <<startVars, monVars, launchVars>>)
  \/ (RestoreDecompress /\ UNCHANGED <<startVars, monVars, launchVars>>)
  \/ (RestorePsql /\ UNCHANGED <<startVars, monVars, launchVars>>)
  \/ (ListBackupsOp /\ UNCHANGED <<startVars, monVars, launchVars>>)

Spec == Init /\ [][Next]_vars

\* the same commands on a directory some of whose files cannot be deleted
InitFaults == InitFiles(BOOLEAN) /\ InitStart /\ InitMonitor /\ InitLaunch

SpecFaults == InitFaults /\ [][Next]_vars

\* start.py on its own: no command of setup_agents.py runs
InitSetupIdle ==
  /\ now = StartTime
  /\ dirExists = FALSE
  /\ dir = EmptyDir
  /\ env = "none"
  /\ db = 0
  /\ cmd = "none"
  /\ pc = "idle"
  /\ bk = NoBackup
  /\ rs = NoRestore
  /\ result = "none"
  /\ calls = << >>
  /\ pre = Snapshot

InitHealth == InitSetupIdle /\ InitStart /\ InitMonitor /\ InitLaunch

NextHealth ==
  \/ (WaitStart /\ UNCHANGED <<setupVars, monVars, launchVars>>)
  \/ (WaitProbe /\ UNCHANGED <<setupVars, monVars, launchVars>>)
  \/ (WaitSleep /\ UNCHANGED <<setupVars, monVars, launchVars>>)

SpecHealth == InitHealth /\ [][NextHealth]_vars

\* the loop is not interrupted: a probe returns within its timeout, a sleep ends
SpecHealthFair ==
  SpecHealth /\ WF_vars(WaitProbe /\ UNCHANGED <<setupVars, monVars, launchVars>>)
             /\ WF_vars(WaitSleep /\ UNCHANGED <<setupVars, monVars, launchVars>>)

\* the monitor command
InitMonitorCmd == InitSetupIdle /\ InitStart /\ InitMonitor /\ InitLaunch

NextMonitor ==
  \/ (MonitorStart /\ UNCHANGED <<setupVars, startVars, launchVars>>)
  \/ (MonitorPoll /\ UNCHANGED <<setupVars, startVars, launchVars>>)
  \/ (MonitorSleep /\ UNCHANGED <<setupVars, startVars, launchVars>>)
  \/ (MonitorInterrupt /\ UNCHANGED <<setupVars, startVars, launchVars>>)

SpecMonitor == InitMonitorCmd /\ [][NextMonitor]_vars

\* the start command (lines 25-37), on any site
InitStartCmd ==
  /\ InitSetupIdle /\ InitStart /\ InitMonitor
  /\ site \in Sites
  /\ spc = "idle"
  /\ method = "none"
  /\ launched = << >>
  /\ sresult = "none"

NextStart ==
  \/ (StartDocker /\ UNCHANGED <<setupVars, monVars>>)
  \/ (StartTraditional /\ UNCHANGED <<setupVars, monVars>>)
  \/ (StartKubernetes /\ UNCHANGED <<setupVars, monVars>>)
  \/ (WaitProbe /\ UNCHANGED <<setupVars, monVars, launchVars>>)
  \/ (WaitSleep /\ UNCHANGED <<setupVars, monVars, launchVars>>)
  \/ (StartReturn /\ UNCHANGED <<setupVars, monVars>>)

SpecStart == InitStartCmd /\ [][NextStart]_vars

\* ------------------------------------------------------------- properties
Done == pc = "done"
LastCall == calls[Len(calls)]
Ran(op) == \E k \in 1..Len(calls) : calls[k].op = op
Failed(op) == \E k \in 1..Len(calls) : calls[k].op = op /\ ~calls[k].ok
Succeeded(op) == \E k \in 1..Len(calls) : calls[k].op = op /\ calls[k].ok
Swept == Done /\ Len(calls) > 0 /\ LastCall.op = "cleanup"

\* age of an artifact at the time of a sweep, and the artifacts too old for it
Age(e, n) == e.at - e.before[n].mtime
TooOld(e) == {n \in DOMAIN e.before : Glob(n) /\ Age(e, n) > e.r * DayTicks}

\* C1: one retention sweep with retention r deletes exactly the artifacts whose
\* age is strictly greater than r days and keeps every other file as it was;
\* on a missing or empty backup directory it changes nothing.
C1_SweepRemovesExactlyStale ==
  Swept =>
    /\ DOMAIN dir = (DOMAIN LastCall.before) \ TooOld(LastCall)
    /\ \A n \in DOMAIN dir : dir[n] = LastCall.before[n]
    /\ LastCall.removed = TooOld(LastCall)
    /\ (~LastCall.exists \/ DOMAIN LastCall.before = {}) => dir = LastCall.before

\* a sweep that removed one artifact and kept one that is exactly r days old
C1_Witness ==
  /\ Swept
  /\ LastCall.removed # {}
  /\ \E n \in DOMAIN dir : Glob(n) /\ Age(LastCall, n) = LastCall.r * DayTicks

\* C2: a backup run with retention_days = 0 that returns success still has
\* the artifact it created.
C2_NewArtifactSurvives ==
  (cmd = "backup" /\ Done /\ result = "true" /\ bk.retention_days = 0)
    => bk.backup_file \in DOMAIN dir

\* C3 as stated: backup_database returns success exactly when pg_dump
\* succeeded, whatever gzip and the upload did.
C3_SuccessIffDump ==
  (cmd = "backup" /\ Done) => (result = "true" <=> Succeeded("pg_dump"))

\* C3: backup_database returns success exactly when pg_dump succeeded and
\* gzip, if it ran, did not fail; a failed upload leaves the result a success,
\* and a failed gzip leaves the uncompressed dump in place.
C3_SuccessIffDumpAndGzip ==
  (cmd = "backup" /\ Done) =>
    /\ result = "true" <=> (Succeeded("pg_dump") /\ ~Failed("gzip"))
    /\ result = "false" <=> ~(Succeeded("pg_dump") /\ ~Failed("gzip"))
    /\ Failed("gzip") => (bk.backup_file \in DOMAIN dir /\ dir[bk.backup_file].valid)

\* a run that returned success although its upload failed
C3_Witness ==
  cmd = "backup" /\ Done /\ result = "true" /\ Failed("upload") /\ Succeeded("gzip")

\* the sweep is the last thing a backup run does, once
SweepOnceAtEnd ==
  /\ Len(calls) > 0
  /\ LastCall.op = "cleanup"
  /\ Cardinality({k \in 1..Len(calls) : calls[k].op = "cleanup"}) = 1

\* C4 as stated: every backup run whose pg_dump succeeded runs the sweep,
\* once and last, whatever gzip and the upload did.
C4_SweepAfterDump ==
  (cmd = "backup" /\ Done /\ Succeeded("pg_dump")) => SweepOnceAtEnd

\* C4: every backup run whose pg_dump succeeded and whose gzip did not fail
\* runs the sweep exactly once, after gzip and the upload when they were asked
\* for, whether the upload succeeded or failed; no run sweeps earlier.
C4_SweepAfterOptionalStages ==
  cmd = "backup" =>
    /\ (Done /\ Succeeded("pg_dump") /\ ~Failed("gzip")) => SweepOnceAtEnd
    /\ \A k \in 1..Len(calls) : calls[k].op = "cleanup" =>
         /\ k = Len(calls)
         /\ bk.compress => \E j \in 1..(k - 1) : calls[j].op = "gzip"
         /\ StrTruthy(bk.s3_bucket) => \E j \in 1..(k - 1) : calls[j].op = "upload"

\* a run that swept after a failed upload
C4_Witness ==
  cmd = "backup" /\ Done /\ Failed("upload") /\ SweepOnceAtEnd /\ bk.compress

\* C5: a backup run whose pg_dump failed returns failure, runs nothing after
\* pg_dump, and leaves the backups that list_backups returns as they were
\* before the run.
C5_FailedDumpLeavesNothing ==
  (cmd = "backup" /\ Done /\ Failed("pg_dump")) =>
    /\ result = "false"
    /\ Len(calls) = 1
    /\ \A k \in 1..Len(ListBackups(dirExists, dir)) :
         LET n == ListBackups(dirExists, dir)[k]
         IN  n \in DOMAIN pre.dir /\ dir[n] = pre.dir[n]

RestoreRan == cmd = "restore" /\ Ran("prompt") /\ pc # "confirm"
Untouched == db = pre.db /\ dir = pre.dir /\ dirExists = pre.dirExists

\* C6: a restore with dry_run set ends at once without prompting, running
\* gunzip or running psql, and leaves the database and the backup directory
\* as they were, whether the file exists or not.
C6_DryRunTouchesNothing ==
  (cmd = "restore" /\ rs.dry_run) =>
    /\ Done
    /\ ~Ran("prompt") /\ ~Ran("gunzip") /\ ~Ran("psql")
    /\ Untouched
    /\ result = (IF rs.backup_path \in DOMAIN pre.dir THEN "true" ELSE "false")

\* a dry run on a compressed backup that exists
C6_Witness ==
  /\ cmd = "restore" /\ rs.dry_run /\ Done /\ result = "true"
  /\ HasGzSuffix(rs.backup_path) /\ Ran("would_restore")

\* C7 as stated: psql runs only after the answer 'yes', and every other
\* answer ends the restore with failure and the database untouched.
C7_PsqlOnlyAfterYes ==
  RestoreRan =>
    /\ Ran("psql") => rs.response = "yes"
    /\ rs.response # "yes" => (Done /\ result = "false" /\ db = pre.db)

\* C7: psql runs only after the prompt was answered 'yes' in any letter
\* case, and every other answer ends the restore with failure, psql not run
\* and the database untouched.
C7_PsqlOnlyAfterConfirmation ==
  cmd = "restore" =>
    /\ Ran("psql") => (calls[1].op = "prompt" /\ Lower(rs.response) = "yes" /\ pc # "confirm")
    /\ db # pre.db => Ran("psql")
    /\ (RestoreRan /\ Lower(rs.response) # "yes") =>
         (Done /\ result = "false" /\ ~Ran("psql") /\ ~Ran("gunzip") /\ db = pre.db)

\* a confirmed restore whose psql changed the database
C7_Witness ==
  RestoreRan /\ Done /\ Succeeded("psql") /\ db # pre.db /\ Lower(rs.response) = "yes"

\* a probe after which "if health:" holds
HealthyProbe(o) == Truthy(CheckHealth(o))
Returned == hpc = "done" /\ max_attempts >= 1

\* C8: wait_for_health returns True at the first healthy probe, having made
\* exactly that many probes, and returns False after exactly max_attempts
\* probes when none of them is healthy.
C8_FirstHealthyProbeEndsWait ==
  /\ Len(log) <= max_attempts
  /\ \A k \in 1..(Len(log) - 1) : ~HealthyProbe(log[k])
  /\ Returned =>
       IF \E k \in 1..Len(log) : HealthyProbe(log[k])
         THEN hresult = "true" /\ HealthyProbe(log[Len(log)])
         ELSE hresult = "false" /\ Len(log) = max_attempts

\* [fail, fail, success] with max_attempts = 3
C8_Witness ==
  /\ Returned /\ max_attempts = 3 /\ Len(log) = 3 /\ hresult = "true"
  /\ ~HealthyProbe(log[1]) /\ ~HealthyProbe(log[2]) /\ HealthyProbe(log[3])

\* C9 as stated: a call that made k probes slept k - 1 times and took at
\* most max_attempts * interval seconds.
C9_SleepsBetweenAttemptsOnly ==
  Returned =>
    /\ sleeps = Len(log) - 1
    /\ elapsed <= max_attempts * SleepInterval

Timeouts == Cardinality({k \in 1..Len(log) : log[k].kind = "timeout"})

C9_Sleeps ==
  /\ sleeps <= max_attempts
  /\ elapsed = (sleeps * SleepInterval) + (Timeouts * ProbeTimeout)
  /\ (Returned /\ hresult = "true") => sleeps = Len(log) - 1
  /\ (Returned /\ hresult = "false") => (sleeps = Len(log) /\ sleeps = max_attempts)

\* C9: wait_for_health always returns; it sleeps the interval after every
\* probe that was not healthy, the last one included, so a call that made k
\* probes slept k - 1 times when it returns True and k = max_attempts times
\* when it returns False, and it sleeps max_attempts * interval seconds at
\* most, the time of the probes coming on top.
C9_WaitTerminatesAndSleeps ==
  /\ []C9_Sleeps
  /\ (hpc \in {"probe", "sleep"}) ~> (hpc = "done")

\* three probes that all failed: three sleeps
C9_Witness ==
  Returned /\ hresult = "false" /\ max_attempts = 3 /\ sleeps = 3 /\ Len(log) = 3

\* status 200 with a body that json.loads accepts
ParseableAnswer(o) == o.kind = "response" /\ o.status = 200 /\ Parseable(o.body)

\* C10: a probe is a success exactly when the endpoint answers 200 with a
\* parseable body: every such probe ends wait_for_health with True, and every
\* other probe yields None and does not.
C10_ParseableBodyIsSuccess ==
  (Len(log) > 0 /\ hpc \in {"sleep", "done"}) =>
    IF ParseableAnswer(log[Len(log)])
      THEN hpc = "done" /\ hresult = "true"
      ELSE health = None /\ hresult # "true"

\* ---------------------------------------------------------------- C11
TwoSweeps == cmd = "cleanup" /\ Len(calls) = 2

C12_SweepIsBestEffort ==
  (Done /\ cmd \in {"backup", "cleanup"} /\ Len(calls) > 0 /\ LastCall.op = "cleanup") =>
    /\ \A n \in TooOld(LastCall) : ~LastCall.before[n].locked => n \notin DOMAIN dir
    /\ result # "raised"

\* ---------------------------------------------------------------- C13
\* C13: a failed upload is reported and is not fatal: the upload stage does
\* not delete the local artifact, which is still in the directory when the
\* next stage starts, and the retention sweep is still executed, once and
\* last, before the run returns.
C13_FailedUploadKeepsArtifactAndSweeps ==
  /\ (cmd = "backup" /\ pc = "cleanup" /\ ~LastCall.ok) =>
       /\ LastCall = Event("upload", FALSE, bk.backup_file)
       /\ bk.backup_file \in DOMAIN dir
  /\ (cmd = "backup" /\ Done /\ Failed("upload")) =>
       /\ SweepOnceAtEnd
       /\ bk.backup_file \in DOMAIN LastCall.before
       /\ result = "true"

\* a run whose upload failed, that swept and whose artifact is still there
C13_Witness ==
  /\ cmd = "backup"
  /\ Done
  /\ Failed("upload")
  /\ Ran("cleanup")
  /\ bk.backup_file \in DOMAIN dir

\* ---------------------------------------------------------------- C14
\* .env.local holds no POSTGRES_URL, or an empty one
NoUrl == env \in {"none", ""}
RestoreOfMissing ==
  cmd = "restore" /\ ~Succeeded("gunzip") /\ ~(pre.dirExists /\ rs.backup_path \in DOMAIN pre.dir)
NoTool == \A k \in 1..Len(calls) : calls[k].op \in {"prompt", "would_restore"}

\* C14 as stated: a restore of a missing file fails without prompt, gunzip or
\* psql, and every backup or restore without POSTGRES_URL fails without
\* pg_dump, gzip, upload, psql or sweep and leaves the artifacts unchanged.
C14_NoUrlAlwaysFails ==
  /\ RestoreOfMissing => (Done /\ result = "false" /\ calls = << >> /\ Untouched)
  /\ (cmd \in {"backup", "restore"} /\ NoUrl /\ pc # "confirm") =>
       (Done /\ result = "false" /\ NoTool /\ dir = pre.dir /\ db = pre.db)

\* C14: a precondition failure aborts before any external tool runs: a restore
\* of a missing file fails without prompt, gunzip or psql; a backup, or a
\* restore that is not a dry run, without POSTGRES_URL fails without pg_dump,
\* gzip, upload, gunzip, psql or sweep and leaves the artifacts and the
\* database unchanged; a dry-run restore never reads POSTGRES_URL.
C14_PreconditionFailureAborts ==
  /\ RestoreOfMissing => (Done /\ result = "false" /\ calls = << >> /\ Untouched)
  /\ (cmd = "backup" /\ NoUrl) =>
       (Done /\ result = "false" /\ calls = << >> /\ dir = pre.dir /\ db = pre.db)
  /\ (cmd = "restore" /\ ~rs.dry_run /\ NoUrl /\ pc # "confirm") =>
       (Done /\ result = "false" /\ NoTool /\ Untouched)
  /\ (cmd = "restore" /\ rs.dry_run /\ NoUrl /\ ~RestoreOfMissing) =>
       (Done /\ result = "true" /\ NoTool /\ Untouched)

\* a confirmed restore of an existing archive stopped by the missing
\* POSTGRES_URL before gunzip
C14_Witness ==
  /\ cmd = "restore"
  /\ Done
  /\ NoUrl
  /\ ~rs.dry_run
  /\ ~Declined(rs.response)
  /\ HasGzSuffix(rs.backup_path)
  /\ rs.backup_path \in DOMAIN dir

\* ---------------------------------------------------------------- C15
\* a restore that got past the dry-run test, by the suffix of the file asked
Asked == calls[1].file
GzRestore == cmd = "restore" /\ Ran("prompt") /\ HasGzSuffix(Asked)

\* C15: a restore of a .gz file decompresses it to the sibling without the
\* suffix before psql starts, streams that sibling and not the archive into
\* psql, and leaves the archive in place and unchanged whether the restore
\* succeeds or fails.
C15_GzRestoreStreamsSibling ==
  GzRestore =>
    /\ Asked \in DOMAIN dir
    /\ dir[Asked] = pre.dir[Asked]
    /\ (pc = "psql" \/ Ran("psql")) =>
         /\ calls[2] = Event("gunzip", TRUE, Asked)
         /\ rs.backup_path = WithoutSuffix(Asked)
         /\ rs.backup_path \in DOMAIN dir
         /\ dir[rs.backup_path] = dir[Asked]
    /\ \A k \in 1..Len(calls) :
         calls[k].op = "psql" => (k = 3 /\ calls[k].file = WithoutSuffix(Asked))

\* a restore of an archive whose psql failed after the decompression
C15_Witness ==
  /\ GzRestore
  /\ Done
  /\ Failed("psql")
  /\ Asked \in DOMAIN dir
  /\ WithoutSuffix(Asked) \notin DOMAIN pre.dir

\* ---------------------------------------------------------------- C16
\* the artifacts of a directory that carry a given minute stamp
OfMinute(d, ts) == {n \in DOMAIN d : Glob(n) /\ n.ts = ts}
OnePerMinute(d) == \A ts \in Stamps : Cardinality(OfMinute(d, ts)) <= 1
Dumped == cmd = "backup" /\ Ran("pg_dump")

\* C16 as stated: after a successful backup, with any compression flag, a
\* directory that held at most one artifact per minute stamp still holds at
\* most one per minute stamp.
C16_OneArtifactPerMinute ==
  (Dumped /\ Done /\ result = "true" /\ OnePerMinute(pre.dir)) => OnePerMinute(dir)

\* C16: artifacts are unique per file name, that is per minute stamp and
\* suffix: the dump of a run replaces an earlier backup-<stamp>.sql of the
\* same minute, a successful gzip leaves backup-<stamp>.sql.gz as the only
\* artifact of that minute, and a run adds no other name; an uncompressed dump
\* and an earlier compressed artifact of the same minute coexist.
C16_OneArtifactPerName ==
  Dumped =>
    /\ bk.backup_file.ts = Timestamp(StartTime)
    /\ LastCall.op = "pg_dump" =>
         dir[calls[1].file] = [mtime |-> now, valid |-> LastCall.ok, locked |-> FALSE]
    /\ OfMinute(dir, bk.backup_file.ts) \subseteq
         OfMinute(pre.dir, bk.backup_file.ts) \cup {bk.backup_file}
    /\ Succeeded("gzip") => OfMinute(dir, bk.backup_file.ts) \subseteq {bk.backup_file}
    /\ \A n \in DOMAIN dir : n.ts # bk.backup_file.ts => (n \in DOMAIN pre.dir /\ dir[n] = pre.dir[n])

\* a dump that has just replaced an older dump of the same minute
C16_Witness ==
  /\ Dumped
  /\ LastCall.op = "pg_dump"
  /\ calls[1].file \in DOMAIN pre.dir
  /\ pre.dir[calls[1].file].mtime < dir[calls[1].file].mtime

\* ---------------------------------------------------------------- C17
\* C17: in a backup run with compression enabled the artifact path carries
\* the .gz suffix once gzip has run: the uncompressed name is replaced, on
\* disk and in the path, the run returns success only with the .gz path, and
\* every upload of the run is handed that .gz path; with compression disabled
\* the path handed to the upload is the plain .sql dump.
C17_CompressedPathIsGz ==
  cmd = "backup" =>
    /\ (bk.compress /\ Succeeded("gzip")) =>
         /\ HasGzSuffix(bk.backup_file)
         /\ bk.backup_file = [ts |-> Timestamp(StartTime), ext |-> ".sql.gz"]
         /\ pc \in {"upload", "cleanup"} =>
              (bk.backup_file \in DOMAIN dir /\ SqlFile(StartTime) \notin DOMAIN dir)
    /\ (bk.compress /\ Done /\ result = "true") => HasGzSuffix(bk.backup_file)
    /\ \A k \in 1..Len(calls) :
         calls[k].op = "upload" =>
           /\ calls[k].file = bk.backup_file
           /\ bk.compress => HasGzSuffix(calls[k].file)
           /\ ~bk.compress => calls[k].file = SqlFile(StartTime)

\* a compressed run whose upload has been handed the .gz path
C17_Witness ==
  /\ cmd = "backup"
  /\ bk.compress
  /\ Done
  /\ Ran("upload")
  /\ HasGzSuffix(bk.backup_file)

\* ---------------------------------------------------------------- C18
Listed == calls[1].names

\* C18: list_backups lists every file of the backup directory that matches
\* backup-*.sql*, each exactly once, sorted by file name in descending order,
\* so that an artifact with a later timestamp is always listed before one
\* with an earlier timestamp; it changes nothing.
C18_ListIsCompleteAndDescending ==
  cmd = "list" =>
    /\ {Listed[k] : k \in 1..Len(Listed)} = Matches(dirExists, dir)
    /\ Len(Listed) = Cardinality(Matches(dirExists, dir))
    /\ \A j, k \in 1..Len(Listed) :
         j < k => (NameLess(Listed[k], Listed[j]) /\ Listed[j].ts >= Listed[k].ts)
    /\ Untouched

\* a listing of two artifacts of different minutes
C18_Witness ==
  /\ cmd = "list"
  /\ Len(Listed) >= 2
  /\ Listed[1].ts > Listed[2].ts

\* ---------------------------------------------------------------- C19
\* C19: monitor is an unbounded loop: whatever the health and metrics probes
\* return, it prints one summary line per round and sleeps for the interval
\* after it, and it stops only when it is interrupted from outside.
C19_MonitorStopsOnlyOnInterrupt ==
  /\ mpc = "stopped" => why = "interrupt"
  /\ mpc = "poll" => Len(lines) = naps
  /\ mpc = "sleep" => Len(lines) = naps + 1

\* ---------------------------------------------------------------- C20
LaunchFailed == \E k \in 1..Len(launched) : launched[k].checked /\ ~launched[k].ok
WaitRan == hpc # "idle"

\* C20: the result of a start does not depend on the health wait:
\* start_docker and start_traditional return success whenever their launch
\* commands exited with status zero, also when wait_for_health returned
\* False; start_kubernetes never runs the health wait; a start returns
\* failure only when a launch command exited non-zero or docker-compose.yml
\* is missing, and then the health wait is not run.
C20_StartResultIgnoresHealthWait ==
  spc = "done" =>
    /\ sresult \in {"true", "false"}
    /\ sresult = "false" <=> (LaunchFailed \/ (method = "docker" /\ ~site.compose))
    /\ sresult = "false" => ~WaitRan
    /\ method = "kubernetes" => ~WaitRan
    /\ (sresult = "true" /\ method \in {"docker", "traditional"}) =>
         (hpc = "done" /\ max_attempts = DefaultAttempts /\ hresult \in {"true", "false"})

\* a docker start that returned success after a health wait that failed
C20_Witness ==
  /\ spc = "done"
  /\ method = "docker"
  /\ sresult = "true"
  /\ hresult = "false"
  /\ sleeps = DefaultAttempts

\* ---------------------------------------------------------------- C21
\* a restore that was asked for confirmation and got an answer
Answered == cmd = "restore" /\ Ran("prompt") /\ pc # "confirm"
Cancelled == Answered /\ (Lower(rs.response) # "yes" \/ NoUrl)

\* C21: a restore that ends without running psql because the operator
\* declined the confirmation, or because POSTGRES_URL is missing, leaves the
\* filesystem and the database unchanged: gunzip runs only after the
\* confirmation was given and the connection string was found, so a
\* cancelled or aborted restore creates no decompressed sibling.
C21_CancelledRestoreChangesNothing ==
  /\ Cancelled =>
       /\ Done
       /\ result = "false"
       /\ ~Ran("gunzip")
       /\ ~Ran("psql")
       /\ Untouched
       /\ WithoutSuffix(Asked) \in DOMAIN dir <=> WithoutSuffix(Asked) \in DOMAIN pre.dir
  /\ (cmd = "restore" /\ Ran("gunzip")) =>
       (Lower(rs.response) = "yes" /\ ~NoUrl /\ HasGzSuffix(Asked))

\* a restore of an archive without decompressed sibling, declined by the
\* operator although POSTGRES_URL is set
C21_Witness ==
  /\ Cancelled
  /\ Done
  /\ ~NoUrl
  /\ HasGzSuffix(Asked)
  /\ WithoutSuffix(Asked) \notin DOMAIN dir

====
